---- MODULE Spec2Model ----
(***************************************************************************)
(* Model of src/database/init_db.py: the SQLite bootstrap script of the    *)
(* Simple Notes application.  One run of the script is a straight-line     *)
(* sequence of statements against the database file myapp.db; the model    *)
(* has one action per statement, and lets one or two instances of the      *)
(* script run against the same file.                                       *)
(*                                                                         *)
(* Engine semantics the script relies on (Python sqlite3, default          *)
(* isolation level, Python >= 3.6):                                        *)
(*  - DDL (CREATE TABLE, ALTER TABLE) issued outside a transaction runs in *)
(*    autocommit mode: it is durable as soon as the statement returns;     *)
(*  - the first INSERT opens a transaction and takes the write lock; its   *)
(*    changes are visible to other connections only after commit;          *)
(*  - a statement that has to write while another connection holds the     *)
(*    write lock fails with "database is locked" once the busy timeout     *)
(*    expires; CREATE TABLE IF NOT EXISTS on an existing table writes      *)
(*    nothing and succeeds;                                                *)
(*  - INSERT OR REPLACE deletes the row that conflicts on the UNIQUE key   *)
(*    and inserts a new row; with AUTOINCREMENT the new row gets an id     *)
(*    greater than every id ever used;                                     *)
(*  - column names are compared case-insensitively by the engine.          *)
(***************************************************************************)
EXTENDS Integers, Sequences, FiniteSets, TLC

\* ---------------------------------------------------------------- bounds
MaxRuns == 2
MaxNoteRows == 1

Procs == {1, 2}
NULL == "NULL"

\* ------------------------------------------------------- schema constants
\* the four columns _ensure_notes_schema checks, in the order it checks them
RequiredCols == <<"title", "content", "created_at", "updated_at">>

Col(n, nn) == [name |-> n, notnull |-> nn]

\* CREATE TABLE notes (...): the column list of the create path
NotesCreateCols ==
  << Col("id", FALSE), Col("title", TRUE), Col("content", TRUE),
     Col("created_at", TRUE), Col("updated_at", TRUE) >>

AppInfoCols == {"id", "key", "value", "created_at"}
UsersCols == {"id", "username", "email", "created_at"}

\* the four seeded (key, value) pairs, in statement order
SeedRows ==
  << [key |-> "project_name", value |-> "database"],
     [key |-> "version", value |-> "0.1.0"],
     [key |-> "author", value |-> "John Doe"],
     [key |-> "description", value |-> ""] >>

SeedKeys == {SeedRows[i].key : i \in 1..4}

\* ---------------------------------------------------------------- helpers
Range(s) == {s[i] : i \in 1..Len(s)}
SetMax(S) == IF S = {} THEN 0 ELSE CHOOSE m \in S : \A x \in S : x <= m
ColNames(cols) == {cols[i].name : i \in 1..Len(cols)}

\* the engine's case-insensitive comparison of identifiers
Lower(s) == IF s = "Title" THEN "title" ELSE s

VARIABLES
  file,          \* myapp.db: "absent" | "valid" | "corrupt" | "unopenable"
  db,            \* the persisted (committed) content of the database file
  lock,          \* holder of the engine's write lock, 0 when free
  dirState,      \* db_visualizer: "absent" | "dir" | "file" | "dangling"
  artifacts,     \* auxiliary files written so far
  pc,            \* per instance: the statement it is about to execute
  run,           \* per instance: number of the current run
  prevDone,      \* per instance: its previous run ended successfully
  existing_cols, \* per instance: result of _get_existing_columns
  tx,            \* per instance: its open transaction (own view of app_info)
  warnings,      \* per instance: warnings printed in this run
  failure,       \* per instance: why the run ended unsuccessfully
  failedAt,      \* per instance: the statement at which it did
  issued,        \* per instance: statements executed in this run
  stats,         \* per instance: (table_count, record_count)
  db0            \* per instance: persisted content when its run started

vars == << file, db, lock, dirState, artifacts, pc, run, prevDone,
           existing_cols, tx,
           warnings, failure, failedAt, issued, stats, db0 >>

NoTx == [active |-> FALSE, info |-> {}, seq |-> 0]
EmptyDb ==
  [tables |-> {}, notesCols |-> << >>, notesRows |-> {}, usersRows |-> {},
   appInfo |-> {}, appSeq |-> 0]

\* --------------------------------------------- pure statements (operators)
\* _table_exists: SELECT 1 FROM sqlite_master WHERE type='table' AND name = ?
TableExists(d, t) == t \in d.tables

\* _get_existing_columns: empty set when the table is absent, else the
\* column names PRAGMA table_info reports
GetExistingColumns(d, t) ==
  IF ~TableExists(d, t) THEN {}
  ELSE IF t = "notes" THEN ColNames(d.notesCols)
  ELSE IF t = "app_info" THEN AppInfoCols
  ELSE UsersCols

\* mutant of Missing: the test for the last column is left out
MissingSkipsLast(cols, name) == name \notin cols /\ name # "updated_at"

\* the Python test `"<name>" not in existing_cols`: exact, case-sensitive
Missing(cols, name) == name \notin cols

\* the engine's duplicate-column test of ALTER TABLE ... ADD COLUMN
DuplicateColumn(d, name) ==
  \E c \in ColNames(d.notesCols) : Lower(c) = Lower(name)

\* mutant of AddColumn: the table is rebuilt with the new column and the old
\* rows are not copied over
AddColumnRecreate(d, name) ==
  [d EXCEPT !.notesCols = Append(@, Col(name, FALSE)), !.notesRows = {}]

\* mutant of AddColumn: ADD COLUMN <name> TEXT NOT NULL DEFAULT ''
AddColumnNotNull(d, name) ==
  [d EXCEPT
     !.notesCols = Append(@, Col(name, TRUE)),
     !.notesRows =
        {[r EXCEPT !.vals = [c \in DOMAIN r.vals \cup {name} |->
                               IF c \in DOMAIN r.vals THEN r.vals[c] ELSE ""]]
           : r \in @}]

\* ALTER TABLE notes ADD COLUMN <name> TEXT: appended last, no NOT NULL,
\* no DEFAULT, so every existing row reads NULL in it
AddColumn(d, name) ==
  [d EXCEPT
     !.notesCols = Append(@, Col(name, FALSE)),
     !.notesRows =
        {[r EXCEPT !.vals = [c \in DOMAIN r.vals \cup {name} |->
                               IF c \in DOMAIN r.vals THEN r.vals[c] ELSE NULL]]
           : r \in @}]

\* mutant of CreateNotesTable: the create path uses the relaxed columns too
CreateNotesNullable(d) ==
  IF "notes" \in d.tables THEN d
  ELSE [d EXCEPT !.tables = @ \cup {"notes"},
                 !.notesCols = [i \in 1..Len(NotesCreateCols) |->
                                  Col(NotesCreateCols[i].name, FALSE)],
                 !.notesRows = {}]

\* CREATE TABLE IF NOT EXISTS notes (...)
CreateNotesTable(d) ==
  IF TableExists(d, "notes") THEN d
  ELSE [d EXCEPT !.tables = @ \cup {"notes"},
                 !.notesCols = NotesCreateCols,
                 !.notesRows = {}]

\* CREATE TABLE IF NOT EXISTS app_info (...) / users (...)
CreateTable(d, t) ==
  IF TableExists(d, t) THEN d ELSE [d EXCEPT !.tables = @ \cup {t}]

\* mutant of InsertOrReplace: a plain INSERT on a key that is not UNIQUE
InsertOnly(t, k, v) ==
  LET newid == SetMax({t.seq} \cup {r.id : r \in t.info}) + 1
  IN  [t EXCEPT
         !.info = @ \cup {[id |-> newid, key |-> k, value |-> v,
                           created_at |-> "now"]},
         !.seq = newid]

\* mutant of InsertOrReplace: the replacement deletes every row whose key is
\* not a seeded one
InsertReplacingAll(t, k, v) ==
  LET kept == {r \in t.info : r.key # k /\ r.key \in {"project_name",
                 "version", "author", "description"}}
      newid == SetMax({t.seq} \cup {r.id : r \in t.info}) + 1
  IN  [t EXCEPT
         !.info = kept \cup {[id |-> newid, key |-> k, value |-> v,
                              created_at |-> "now"]},
         !.seq = newid]

\* INSERT OR REPLACE INTO app_info (key, value) VALUES (k, v) on the
\* transaction's view t: the row conflicting on the UNIQUE key is deleted,
\* then a row is inserted with the next AUTOINCREMENT id and the default
\* created_at
InsertOrReplace(t, k, v) ==
  LET kept == {r \in t.info : r.key # k}
      newid == SetMax({t.seq} \cup {r.id : r \in t.info}) + 1
  IN  [t EXCEPT
         !.info = kept \cup {[id |-> newid, key |-> k, value |-> v,
                              created_at |-> "now"]},
         !.seq = newid]

\* sqlite3's implicit BEGIN before the first INSERT
Begin(t, d) ==
  IF t.active THEN t ELSE [active |-> TRUE, info |-> d.appInfo, seq |-> d.appSeq]

\* conn.commit()
CommitTx(d, t) ==
  IF t.active THEN [d EXCEPT !.appInfo = t.info, !.appSeq = t.seq] ELSE d

\* ------------------------------------------------------------ initial states
\* a notes table left by an older version: id or not, any subset of the
\* required columns (declared NOT NULL or not), possibly one extra column
LegacyNotesCols ==
  { (IF hasId THEN << Col("id", FALSE) >> ELSE << >>)
      \o [i \in 1..Len(SelectSeq(RequiredCols, LAMBDA c : c \in S)) |->
            Col(SelectSeq(RequiredCols, LAMBDA c : c \in S)[i], nn)]
      \o (IF extra = "none" THEN << >> ELSE << Col(extra, FALSE) >>)
    : hasId \in BOOLEAN, S \in SUBSET Range(RequiredCols),
      nn \in BOOLEAN, extra \in {"none", "body", "Title"} }

InitNotesCols ==
  { cs \in LegacyNotesCols :
      /\ Len(cs) > 0
      /\ \A i, j \in 1..Len(cs) : Lower(cs[i].name) = Lower(cs[j].name) => i = j }

\* the notes tables the two-instance runs start from
ConcNotesCols ==
  { cs \in InitNotesCols :
      /\ ColNames(cs) \subseteq {"id", "title", "content", "created_at", "updated_at"}
      /\ "id" \in ColNames(cs)
      /\ \A i \in 1..Len(cs) : ~cs[i].notnull }

NotesRows(cs, k) ==
  { [rowid |-> i,
     vals |-> [c \in ColNames(cs) |-> IF c = "id" THEN ToString(i) ELSE "v"]]
    : i \in 1..k }

\* app_info rows of an earlier life of the file: a seeded key with an older
\* value, and a key the script does not seed
OldInfoRows ==
  { [id |-> 1, key |-> "version", value |-> "0.0.9", created_at |-> "t0"],
    [id |-> 2, key |-> "theme", value |-> "dark", created_at |-> "t0"] }

InitDbs(colsSet) ==
  { [tables |-> ts,
     notesCols |-> cs,
     notesRows |-> NotesRows(cs, k),
     usersRows |-> IF "users" \in ts THEN {1} ELSE {},
     appInfo |-> ai,
     appSeq |-> SetMax({r.id : r \in ai})]
    : ts \in SUBSET {"app_info", "users", "notes"},
      cs \in colsSet \cup {<< >>},
      k \in {0, MaxNoteRows},
      ai \in SUBSET OldInfoRows }

WellFormedDb(d) ==
  /\ ("notes" \in d.tables) = (d.notesCols # << >>)
  /\ d.notesCols = << >> => d.notesRows = {}
  /\ "app_info" \notin d.tables => d.appInfo = {}

\* the databases the two-instance runs start from
ConcDbs ==
  { d \in InitDbs(ConcNotesCols) :
      /\ WellFormedDb(d)
      /\ ("users" \in d.tables) = ("app_info" \in d.tables)
      /\ d.appInfo \in {{}, OldInfoRows}
      /\ "notes" \in d.tables => Cardinality(d.notesRows) = MaxNoteRows }

InitWith(files, dbs, dirs, active) ==
  /\ file \in files
  /\ db \in IF file = "valid" THEN dbs ELSE {EmptyDb}
  /\ lock = 0
  /\ dirState \in dirs
  /\ artifacts = {}
  /\ pc = [p \in Procs |-> IF p \in active THEN "start" ELSE "off"]
  /\ run = [p \in Procs |-> IF p \in active THEN 1 ELSE 0]
  /\ prevDone = [p \in Procs |-> FALSE]
  /\ existing_cols = [p \in Procs |-> {}]
  /\ tx = [p \in Procs |-> NoTx]
  /\ warnings = [p \in Procs |-> {}]
  /\ failure = [p \in Procs |-> "none"]
  /\ failedAt = [p \in Procs |-> "none"]
  /\ issued = [p \in Procs |-> {}]
  /\ stats = [p \in Procs |-> << 0, 0 >>]
  /\ db0 = [p \in Procs |-> db]

Init ==
  InitWith({"absent", "valid", "corrupt", "unopenable"},
           {d \in InitDbs(InitNotesCols) : WellFormedDb(d)},
           {"absent", "dir", "file", "dangling"}, {1})

InitConc ==
  InitWith({"absent", "valid"}, ConcDbs, {"absent"}, Procs)

\* ------------------------------------------------------------------ actions
\* an uncaught exception: the script stops; closing the connection without
\* commit rolls its open transaction back and frees the write lock
Raise(p, why) ==
  /\ pc' = [pc EXCEPT ![p] = "failed"]
  /\ failure' = [failure EXCEPT ![p] = why]
  /\ failedAt' = [failedAt EXCEPT ![p] = pc[p]]
  /\ tx' = [tx EXCEPT ![p] = NoTx]
  /\ lock' = IF lock = p THEN 0 ELSE lock

Goto(p, next) ==
  /\ pc' = [pc EXCEPT ![p] = next]
  /\ UNCHANGED << failure, failedAt >>

\* a DDL statement outside a transaction: autocommitted; when it has to
\* write and another connection holds the write lock it fails
Ddl(p, tag, writes, d2, next) ==
  /\ issued' = [issued EXCEPT ![p] = @ \cup {tag}]
  /\ IF writes /\ lock \notin {0, p}
       THEN Raise(p, "locked") /\ UNCHANGED db
       ELSE Goto(p, next) /\ db' = d2 /\ UNCHANGED << tx, lock >>
  /\ UNCHANGED << file, dirState, artifacts, run, prevDone, existing_cols, warnings,
                  stats, db0 >>

\* lines 96-101: os.path.exists(DB_NAME)
Start(p) ==
  /\ pc[p] = "start"
  /\ db0' = [db0 EXCEPT ![p] = db]
  /\ Goto(p, IF file # "absent" THEN "probe" ELSE "connect")
  /\ UNCHANGED << file, db, lock, dirState, artifacts, run, prevDone, existing_cols, tx,
                  warnings, issued, stats >>

\* what connect / SELECT 1 / close can do on the file
ProbeOutcomes(f) ==
  IF f = "valid" THEN {"ok"}
  ELSE IF f = "corrupt" THEN {"ok", "error"}
  ELSE {"error"}

\* mutant of AfterProbe: the probe's error is not caught
AfterProbeRaise(outcome) == IF outcome = "error" THEN "failed" ELSE "connect"

\* the except clause of the probe swallows the error
AfterProbe(outcome) == "connect"

\* lines 102-109: the accessibility probe
Probe(p) ==
  /\ pc[p] = "probe"
  /\ \E o \in ProbeOutcomes(file) :
       /\ warnings' = [warnings EXCEPT ![p] =
                         IF o = "error" THEN @ \cup {"corrupted"} ELSE @]
       /\ pc' = [pc EXCEPT ![p] = AfterProbe(o)]
       /\ failure' = [failure EXCEPT ![p] =
                        IF AfterProbe(o) = "failed" THEN "probe" ELSE @]
       /\ failedAt' = [failedAt EXCEPT ![p] =
                         IF AfterProbe(o) = "failed" THEN "probe" ELSE @]
  /\ UNCHANGED << file, db, lock, dirState, artifacts, run, prevDone, existing_cols, tx,
                  issued, stats, db0 >>

\* lines 114-115: sqlite3.connect(DB_NAME) creates the file when absent
Connect(p) ==
  /\ pc[p] = "connect"
  /\ IF file = "unopenable"
       THEN Raise(p, "cannot open") /\ UNCHANGED file
       ELSE /\ Goto(p, "create_app_info")
            /\ file' = (IF file = "absent" THEN "valid" ELSE file)
            /\ UNCHANGED << tx, lock >>
  /\ UNCHANGED << db, dirState, artifacts, run, prevDone, existing_cols, warnings,
                  issued, stats, db0 >>

\* lines 118-127: CREATE TABLE IF NOT EXISTS app_info; the first statement
\* that reads the file, so the one that fails on a file that is no database
CreateAppInfo(p) ==
  /\ pc[p] = "create_app_info"
  /\ IF file = "corrupt"
       THEN /\ Raise(p, "not a database")
            /\ issued' = [issued EXCEPT ![p] = @ \cup {"CREATE app_info"}]
            /\ UNCHANGED << file, db, dirState, artifacts, run, prevDone, existing_cols,
                            warnings, stats, db0 >>
       ELSE Ddl(p, "CREATE app_info", ~TableExists(db, "app_info"),
                CreateTable(db, "app_info"), "create_users")

\* lines 130-139: CREATE TABLE IF NOT EXISTS users
CreateUsers(p) ==
  /\ pc[p] = "create_users"
  /\ Ddl(p, "CREATE users", ~TableExists(db, "users"),
         CreateTable(db, "users"), "table_exists")

\* line 64: if not _table_exists(cursor, "notes")
CheckNotes(p) ==
  /\ pc[p] = "table_exists"
  /\ Goto(p, IF ~TableExists(db, "notes") THEN "create_notes" ELSE "get_cols")
  /\ UNCHANGED << file, db, lock, dirState, artifacts, run, prevDone, existing_cols, tx,
                  warnings, issued, stats, db0 >>

\* lines 65-76: CREATE TABLE IF NOT EXISTS notes, then return
CreateNotes(p) ==
  /\ pc[p] = "create_notes"
  /\ Ddl(p, "CREATE notes", ~TableExists(db, "notes"),
         CreateNotesTable(db), "seed1")

\* line 79: existing_cols = _get_existing_columns(cursor, "notes")
GetCols(p) ==
  /\ pc[p] = "get_cols"
  /\ existing_cols' = [existing_cols EXCEPT ![p] = GetExistingColumns(db, "notes")]
  /\ Goto(p, "add1")
  /\ UNCHANGED << file, db, lock, dirState, artifacts, run, prevDone, tx, warnings,
                  issued, stats, db0 >>

AddPc(i) == << "add1", "add2", "add3", "add4", "seed1" >>[i]

\* lines 86-93: if "<col>" not in existing_cols: ALTER TABLE notes ADD COLUMN
AddMissing(p, i) ==
  /\ pc[p] = AddPc(i)
  /\ IF ~Missing(existing_cols[p], RequiredCols[i])
       THEN /\ Goto(p, AddPc(i + 1))
            /\ UNCHANGED << file, db, lock, dirState, artifacts, run, prevDone,
                            existing_cols, tx, warnings, issued, stats, db0 >>
       ELSE IF DuplicateColumn(db, RequiredCols[i])
         THEN /\ Raise(p, "duplicate column")
              /\ issued' = [issued EXCEPT ![p] = @ \cup {"ADD " \o RequiredCols[i]}]
              /\ UNCHANGED << file, db, dirState, artifacts, run, prevDone, existing_cols,
                              warnings, stats, db0 >>
         ELSE Ddl(p, "ADD " \o RequiredCols[i], TRUE,
                  AddColumn(db, RequiredCols[i]), AddPc(i + 1))

SeedPc(i) == << "seed1", "seed2", "seed3", "seed4", "commit" >>[i]

\* lines 145-160: INSERT OR REPLACE INTO app_info (key, value) VALUES (?, ?);
\* the first one opens the transaction and takes the write lock
Seed(p, i) ==
  /\ pc[p] = SeedPc(i)
  /\ issued' = [issued EXCEPT ![p] = @ \cup {"UPSERT " \o SeedRows[i].key}]
  /\ IF lock \notin {0, p}
       THEN Raise(p, "locked")
       ELSE /\ Goto(p, SeedPc(i + 1))
            /\ lock' = p
            /\ tx' = [tx EXCEPT ![p] =
                        InsertOrReplace(Begin(@, db), SeedRows[i].key,
                                        SeedRows[i].value)]
  /\ UNCHANGED << file, db, dirState, artifacts, run, prevDone, existing_cols, warnings,
                  stats, db0 >>

\* line 162: conn.commit()
Commit(p) ==
  /\ pc[p] = "commit"
  /\ db' = CommitTx(db, tx[p])
  /\ tx' = [tx EXCEPT ![p] = NoTx]
  /\ lock' = IF lock = p THEN 0 ELSE lock
  /\ issued' = [issued EXCEPT ![p] = @ \cup {"COMMIT"}]
  /\ Goto(p, "stats")
  /\ UNCHANGED << file, dirState, artifacts, run, prevDone, existing_cols, warnings,
                  stats, db0 >>

\* lines 165-173: table and app_info row counts, conn.close()
Stats(p) ==
  /\ pc[p] = "stats"
  /\ stats' = [stats EXCEPT ![p] =
                 << Cardinality(db.tables), Cardinality(db.appInfo) >>]
  /\ Goto(p, "write_conn")
  /\ UNCHANGED << file, db, lock, dirState, artifacts, run, prevDone, existing_cols, tx,
                  warnings, issued, db0 >>

\* lines 179-187: db_connection.txt, inside try/except
WriteConnInfo(p) ==
  /\ pc[p] = "write_conn"
  /\ \/ /\ artifacts' = artifacts \cup {"db_connection.txt"}
        /\ UNCHANGED warnings
     \/ /\ warnings' = [warnings EXCEPT ![p] = @ \cup {"connection info"}]
        /\ UNCHANGED artifacts
  /\ Goto(p, "ensure_dir")
  /\ UNCHANGED << file, db, lock, dirState, run, prevDone, existing_cols, tx, issued,
                  stats, db0 >>

\* os.path.exists("db_visualizer"): false for a dangling symbolic link
PathExists(d) == d \in {"dir", "file"}

\* lines 193-195: os.makedirs("db_visualizer", exist_ok=True), outside any
\* try/except; it raises FileExistsError on a path that is not a directory
EnsureDir(p) ==
  /\ pc[p] = "ensure_dir"
  /\ IF PathExists(dirState)
       THEN Goto(p, "write_env") /\ UNCHANGED << dirState, tx, lock >>
       ELSE IF dirState = "absent"
         THEN Goto(p, "write_env") /\ dirState' = "dir" /\ UNCHANGED << tx, lock >>
         ELSE Raise(p, "makedirs") /\ UNCHANGED dirState
  /\ UNCHANGED << file, db, artifacts, run, prevDone, existing_cols, warnings, issued,
                  stats, db0 >>

\* lines 197-202: db_visualizer/sqlite.env, inside try/except
WriteEnv(p) ==
  /\ pc[p] = "write_env"
  /\ \/ /\ dirState = "dir"
        /\ artifacts' = artifacts \cup {"sqlite.env"}
        /\ UNCHANGED warnings
     \/ /\ warnings' = [warnings EXCEPT ![p] = @ \cup {"environment"}]
        /\ UNCHANGED artifacts
  /\ Goto(p, "finish")
  /\ UNCHANGED << file, db, lock, dirState, run, prevDone, existing_cols, tx, issued,
                  stats, db0 >>

\* lines 204-234: the final report
Finish(p) ==
  /\ pc[p] = "finish"
  /\ Goto(p, "done")
  /\ UNCHANGED << file, db, lock, dirState, artifacts, run, prevDone, existing_cols, tx,
                  warnings, issued, stats, db0 >>

\* the script is started again on the same file
Rerun(p) ==
  /\ pc[p] \in {"done", "failed"}
  /\ run[p] < MaxRuns
  /\ run' = [run EXCEPT ![p] = @ + 1]
  /\ prevDone' = [prevDone EXCEPT ![p] = (pc[p] = "done")]
  /\ pc' = [pc EXCEPT ![p] = "start"]
  /\ existing_cols' = [existing_cols EXCEPT ![p] = {}]
  /\ warnings' = [warnings EXCEPT ![p] = {}]
  /\ failure' = [failure EXCEPT ![p] = "none"]
  /\ failedAt' = [failedAt EXCEPT ![p] = "none"]
  /\ issued' = [issued EXCEPT ![p] = {}]
  /\ stats' = [stats EXCEPT ![p] = << 0, 0 >>]
  /\ UNCHANGED << file, db, lock, dirState, artifacts, tx, db0 >>

Step(p) ==
  \/ Start(p) \/ Probe(p) \/ Connect(p)
  \/ CreateAppInfo(p) \/ CreateUsers(p)
  \/ CheckNotes(p) \/ CreateNotes(p) \/ GetCols(p)
  \/ \E i \in 1..4 : AddMissing(p, i)
  \/ \E i \in 1..4 : Seed(p, i)
  \/ Commit(p) \/ Stats(p)
  \/ WriteConnInfo(p) \/ EnsureDir(p) \/ WriteEnv(p) \/ Finish(p)

Next == \E p \in Procs : Step(p) \/ Rerun(p)
Spec == Init /\ [][Next]_vars

NextConc == \E p \in Procs : Step(p)
SpecConc == InitConc /\ [][NextConc]_vars

\* ------------------------------------------------------------------- claims
PreCommitPcs ==
  { "probe", "connect", "create_app_info", "create_users", "table_exists",
    "create_notes", "get_cols", "add1", "add2", "add3", "add4",
    "seed1", "seed2", "seed3", "seed4", "commit" }
PostCommitPcs == { "stats", "write_conn", "ensure_dir", "write_env", "finish", "done" }
ArtifactPcs == { "write_conn", "ensure_dir", "write_env" }
AllTables == { "app_info", "users", "notes" }

\* instance p is inside a run (db0[p] is the content its run started from)
InRun(p) == pc[p] \notin {"off", "start"}

\* the run of instance p got past conn.commit()
Committed(p) ==
  \/ pc[p] \in PostCommitPcs
  \/ pc[p] = "failed" /\ failedAt[p] \in PostCommitPcs

Schema(d) ==
  [tables |-> d.tables, notesCols |-> d.notesCols,
   cols |-> [t \in d.tables |-> GetExistingColumns(d, t)]]

KV(rows) == { << r.key, r.value >> : r \in rows }

AddTags == { "ADD " \o RequiredCols[i] : i \in 1..4 }

ThemeRow == [id |-> 2, key |-> "theme", value |-> "dark", created_at |-> "t0"]

C2_Original ==
  \A p \in Procs : Committed(p) =>
    {"id"} \cup Range(RequiredCols) \subseteq ColNames(db.notesCols)

\* C2 amended: after a run that got past commit, notes has title, content,
\* created_at and updated_at; it has id exactly when the run created the
\* table or the table already had an id column.
C2_SchemaSuperset ==
  \A p \in Procs : Committed(p) =>
    /\ Range(RequiredCols) \subseteq ColNames(db.notesCols)
    /\ ("id" \in ColNames(db.notesCols)) =
         ("notes" \notin db0[p].tables \/ "id" \in ColNames(db0[p].notesCols))

C2_Witness ==
  /\ pc[1] = "done" /\ run[1] = 1
  /\ ColNames(db0[1].notesCols) = {"content", "body"}
  /\ ColNames(db.notesCols) =
       {"content", "body", "title", "created_at", "updated_at"}

\* C3: when notes existed at the start of the run, at every point of the run
\* the columns it had are still there, in place and with their constraint,
\* every column after them is a required column that was missing, added
\* without NOT NULL, every row it had is still there with its old values and
\* NULL in the added columns, no row was added, and after commit all four
\* required columns are present.
C3_AdditiveOnly ==
  \A p \in Procs : (InRun(p) /\ "notes" \in db0[p].tables) =>
    LET old == db0[p].notesCols
        new == db.notesCols
    IN  /\ Len(new) >= Len(old)
        /\ SubSeq(new, 1, Len(old)) = old
        /\ \A i \in (Len(old) + 1)..Len(new) :
             /\ new[i].name \in Range(RequiredCols) \ ColNames(old)
             /\ ~new[i].notnull
        /\ Cardinality(db.notesRows) = Cardinality(db0[p].notesRows)
        /\ \A r0 \in db0[p].notesRows : \E r \in db.notesRows :
             /\ r.rowid = r0.rowid
             /\ DOMAIN r.vals = ColNames(new)
             /\ \A c \in DOMAIN r.vals :
                  r.vals[c] = IF c \in DOMAIN r0.vals THEN r0.vals[c] ELSE NULL
        /\ Committed(p) => Range(RequiredCols) \subseteq ColNames(new)

C3_Witness ==
  /\ pc[1] = "done"
  /\ db0[1].notesCols = << Col("id", FALSE), Col("title", TRUE) >>
  /\ db0[1].notesRows # {}
  /\ {"ADD content", "ADD created_at", "ADD updated_at"} \subseteq issued[1]
  /\ \A r \in db.notesRows :
       r.vals["title"] = "v" /\ r.vals["content"] = NULL
         /\ r.vals["created_at"] = NULL /\ r.vals["updated_at"] = NULL

\* C4 as stated: every row present before the run is present after it with
\* the same id and the same values in the columns the run did not set (for
\* app_info the run sets key and value of the seeded keys only).
C4_NoDataLoss ==
  \A p \in Procs : Committed(p) =>
    /\ \A r0 \in db0[p].appInfo : \E r \in db.appInfo :
         /\ r.id = r0.id /\ r.key = r0.key /\ r.created_at = r0.created_at
         /\ r0.key \notin SeedKeys => r.value = r0.value
    /\ db0[p].usersRows \subseteq db.usersRows
    /\ \A r0 \in db0[p].notesRows : \E r \in db.notesRows :
         r.rowid = r0.rowid /\ \A c \in DOMAIN r0.vals : r.vals[c] = r0.vals[c]

\* C5: after any run that got past commit, app_info holds exactly one row
\* for each seeded key and it carries the seed value, no two rows share a
\* key or an id, and every row whose key is not seeded is the row it was.
C5_Upsert ==
  \A p \in Procs : Committed(p) =>
    /\ \A i \in 1..4 :
         /\ Cardinality({r \in db.appInfo : r.key = SeedRows[i].key}) = 1
         /\ \A r \in db.appInfo :
              r.key = SeedRows[i].key => r.value = SeedRows[i].value
    /\ \A r1, r2 \in db.appInfo : (r1.key = r2.key \/ r1.id = r2.id) => r1 = r2
    /\ \A r0 \in db0[p].appInfo : r0.key \notin SeedKeys => r0 \in db.appInfo

C5_Witness ==
  /\ pc[1] = "done" /\ run[1] >= 2 /\ prevDone[1]
  /\ ThemeRow \in db.appInfo
  /\ Cardinality(db.appInfo) = 5

\* C6: from a database with none of the three tables, after commit all
\* three exist with the specified columns, notes has title, content,
\* created_at and updated_at declared NOT NULL, and the run issued
\* CREATE TABLE notes and no ADD COLUMN.
C6_FreshCreation ==
  \A p \in Procs : (Committed(p) /\ db0[p].tables = {}) =>
    /\ db.tables = AllTables
    /\ GetExistingColumns(db, "app_info") = {"id", "key", "value", "created_at"}
    /\ GetExistingColumns(db, "users") = {"id", "username", "email", "created_at"}
    /\ [i \in 1..Len(db.notesCols) |-> db.notesCols[i].name] =
         << "id", "title", "content", "created_at", "updated_at" >>
    /\ \A i \in 2..Len(db.notesCols) : db.notesCols[i].notnull
    /\ "CREATE notes" \in issued[p]
    /\ issued[p] \cap AddTags = {}

C6_Witness ==
  /\ pc[1] = "done" /\ run[1] = 1
  /\ db0[1].tables = {}
  /\ db.tables = AllTables /\ Len(db.notesCols) = 5

\* C7 as stated: when a statement fails before commit, the persisted
\* database is the one the run started from.
C7_AllOrNothing ==
  \A p \in Procs : (pc[p] = "failed" /\ failedAt[p] \in PreCommitPcs) =>
    db = db0[p]

\* C8: the probe is never the step at which a run ends; once the probe has
\* warned, the run is at or past the main connect, and if it ended
\* unsuccessfully it did so at the connect or at a later statement.
C8_ProbeTolerant ==
  \A p \in Procs :
    /\ failedAt[p] # "probe"
    /\ "corrupted" \in warnings[p] =>
         /\ pc[p] \notin {"off", "start", "probe"}
         /\ pc[p] = "failed" =>
              failedAt[p] \in (PreCommitPcs \cup PostCommitPcs) \ {"probe"}

C8_Witness ==
  /\ "corrupted" \in warnings[1]
  /\ pc[1] = "failed" /\ failedAt[1] = "create_app_info"
  /\ "CREATE app_info" \in issued[1]

\* C9 as stated: a run ends unsuccessfully only at the connect, at a DDL or
\* DML statement or at the commit, never while producing an artifact.
C9_ArtifactsNeverAbort ==
  \A p \in Procs : pc[p] = "failed" => failedAt[p] \notin ArtifactPcs

\* what one run makes of content d: the schema and the app_info contents
ConvergedCols(d) ==
  IF "notes" \in d.tables
    THEN d.notesCols \o
         [i \in 1..Len(SelectSeq(RequiredCols,
                         LAMBDA c : c \notin ColNames(d.notesCols))) |->
            Col(SelectSeq(RequiredCols,
                  LAMBDA c : c \notin ColNames(d.notesCols))[i], FALSE)]
    ELSE << Col("id", FALSE), Col("title", TRUE), Col("content", TRUE),
            Col("created_at", TRUE), Col("updated_at", TRUE) >>

ConvergedKV(d) ==
  { kv \in KV(d.appInfo) : kv[1] \notin SeedKeys }
    \cup { << SeedRows[i].key, SeedRows[i].value >> : i \in 1..4 }

BothDoneAsSingleRun ==
  (\A p \in Procs : pc[p] = "done") =>
    \A p \in Procs :
      /\ db.tables = AllTables
      /\ db.notesCols = ConvergedCols(db0[p])
      /\ KV(db.appInfo) = ConvergedKV(db0[p])
      /\ Cardinality(db.appInfo) = Cardinality(ConvergedKV(db0[p]))

====
